---- MODULE Spec2Model ----
(***************************************************************************)
(* EnterpriseCA (src/objects/enterpriseca.rs): the object built from one   *)
(* directory entry, its parse() and the LdapObject trait methods.          *)
(*                                                                         *)
(* Representation.                                                         *)
(*  - Option<T> is a sequence of length 0 (None) or 1 (Some(v)); a Result  *)
(*    is represented the same way (<<>> is Err, <<v>> is Ok(v)).           *)
(*  - A rendered SID is the sequence of its dash-separated tokens, so      *)
(*    str.ends_with("-512") is "the last token is 512 and one precedes it".*)
(*  - An edge (AceTemplate) is identified by the ordinal of its ACE.       *)
(*  - A security descriptor value is its length, the header fields the     *)
(*    code reads and the ACL found behind the DACL offset.                 *)
(***************************************************************************)
EXTENDS Integers, Sequences, FiniteSets, TLC

\* ---------------------------------------------------------------- bounds
MaxAces == 2
MaxExt == 2

\* ------------------------------------------------------------- Option
None == <<>>
Some(v) == <<v>>
IsSome(o) == Len(o) = 1
Unwrap(o) == o[1]

\* ------------------------------------------- crate::enums (MaskFlags)
MANAGE_CA == 1
MANAGE_CERTIFICATES == 2
ENROLL == 512
FULL_CONTROL == 983551

RECURSIVE BitOr(_, _)
BitOr(a, b) ==
    IF a = 0 THEN b
    ELSE IF b = 0 THEN a
    ELSE (IF a % 2 = 1 \/ b % 2 = 1 THEN 1 ELSE 0) + 2 * BitOr(a \div 2, b \div 2)

RECURSIVE BitAnd(_, _)
BitAnd(a, b) ==
    IF a = 0 \/ b = 0 THEN 0
    ELSE (IF a % 2 = 1 /\ b % 2 = 1 THEN 1 ELSE 0) + 2 * BitAnd(a \div 2, b \div 2)

\* ---------------------------------------------------------------- inputs
Domain == "CORP.LOCAL"

\* Trustee SIDs as decoded (the sub-authorities after S-1-5).
SidValues ==
    { <<"32", "544">>, <<"21", "519">>, <<"21", "512">>,
      <<"21", "1105">>, <<"21", "1106">> }
MaskValues == {MANAGE_CA, MANAGE_CERTIFICATES, FULL_CONTROL}

ACCESS_ALLOWED == 0
ACCESS_DENIED == 1
SYSTEM_AUDIT == 2

\* An ACE of the parsed ACL: ace_type and data; data carries an optional
\* trustee SID and an optional rights mask (AceFormat::get_sid / get_mask).
AllowAces ==
    [ace_type : {ACCESS_ALLOWED},
     sid : {None} \cup {Some(s) : s \in SidValues},
     mask : {None} \cup {Some(m) : m \in MaskValues}]
OtherAces ==
    { [ace_type |-> ACCESS_DENIED, sid |-> Some(<<"21", "1105">>),
       mask |-> Some(MANAGE_CERTIFICATES)],
      [ace_type |-> SYSTEM_AUDIT, sid |-> None, mask |-> None] }
Aces == AllowAces \cup OtherAces
Dacls == UNION {[1..n -> Aces] : n \in 0..MaxAces}

\* Length of the fixed security-descriptor header.
HeaderLen == 20
BufLen == HeaderLen + 8

NoNt == [len |-> 0, offset_dacl |-> 0, protected |-> FALSE, acl |-> None]

\* nTSecurityDescriptor values: too short for the header; DACL offset 0, at
\* the end of the buffer, past the end; DACL offset in range with an ACL that
\* does not parse or that parses to a DACL.
NtValues ==
    { [len |-> HeaderLen - 1, offset_dacl |-> 0, protected |-> FALSE, acl |-> None] }
    \cup [len : {BufLen}, offset_dacl : {0, BufLen, BufLen + 1},
          protected : BOOLEAN, acl : {None}]
    \cup [len : {BufLen}, offset_dacl : {HeaderLen}, protected : BOOLEAN,
          acl : {None} \cup {Some(d) : d \in Dacls}]

\* Certificate extensions: Basic Constraints (2.5.29.19) parsed with a
\* path length, or not parsing as BasicConstraints; and another extension.
OID_BASIC_CONSTRAINTS == "2.5.29.19"
OID_KEY_USAGE == "2.5.29.15"
PathLens == {0, 3}
Extensions ==
    [oid : {OID_BASIC_CONSTRAINTS}, parsed : {"BasicConstraints"},
     path_len_constraint : {None} \cup {Some(n) : n \in PathLens}]
    \cup { [oid |-> OID_BASIC_CONSTRAINTS, parsed |-> "ParseError",
            path_len_constraint |-> None],
           [oid |-> OID_KEY_USAGE, parsed |-> "KeyUsage",
            path_len_constraint |-> None] }
ExtLists == UNION {[1..n -> Extensions] : n \in 0..MaxExt}

\* A cACertificate value: its bytes (by identity) and what from_der makes
\* of them (Err, or the certificate's extensions).
CertBytes == {"certA"}
NoCert == [bytes |-> "", der |-> None]
CertValues == [bytes : CertBytes, der : {None} \cup {Some(e) : e \in ExtLists}]

\* What string_to_epoch makes of the whenCreated attribute, when present.
WhenCreatedValues == {"absent", "Ok", "Err"}

\* --------------------------------------------- crate::enums (decoders)
\* SecurityDescriptor::parse: fails when the buffer cannot hold the header.
SecurityDescriptor_parse(v) ==
    IF v.len < HeaderLen THEN None
    ELSE Some([offset_dacl |-> v.offset_dacl, protected |-> v.protected])

\* Acl::parse on the slice that starts at off: fails on an empty slice.
Acl_parse(v, off) ==
    IF off >= v.len \/ ~IsSome(v.acl) THEN None
    ELSE Some([data |-> Unwrap(v.acl)])

get_sid(ace) == ace.sid
get_mask(ace) == ace.mask

\* sid_maker: the SID rendered with the domain qualifier, as its tokens.
sid_maker(sid, domain) == <<domain, "S", "1", "5">> \o sid

\* calculate_sha1: the hex digest of the bytes.
Digests == [certA |-> "da39a3ee5e6b4b0d3255bfef95601890afd80709"]
calculate_sha1(bytes) == Digests[bytes]

RECURSIVE SortedSeq(_)
SortedSeq(S) ==
    IF S = {} THEN <<>>
    ELSE LET m == CHOOSE x \in S : \A y \in S : x <= y
         IN <<m>> \o SortedSeq(S \ {m})

\* The DACL a descriptor value decodes to (empty when it has none).
DecodedDacl(v) ==
    LET sd == SecurityDescriptor_parse(v)
    IN IF ~IsSome(sd) THEN <<>>
       ELSE LET off == Unwrap(sd).offset_dacl
            IN IF off = 0 \/ ~IsSome(Acl_parse(v, off)) THEN <<>>
               ELSE Unwrap(Acl_parse(v, off)).data

IsEdge(ace) ==
    /\ ace.ace_type \in {ACCESS_ALLOWED, ACCESS_DENIED}
    /\ IsSome(ace.sid)
    /\ IsSome(ace.mask)

CA_RIGHTS == MANAGE_CA + MANAGE_CERTIFICATES + ENROLL

\* parse_ntsecuritydescriptor: the allow/deny edges of the DACL in stored
\* order, and the "ACL protected" flag handed to set_is_acl_protected.
parse_ntsecuritydescriptor(v) ==
    LET d == DecodedDacl(v)
    IN [collected |-> IsSome(SecurityDescriptor_parse(v)),
        protected |-> v.protected,
        aces |-> SortedSeq({i \in 1..Len(d) : IsEdge(d[i])})]

\* parse_ca_security: the edges that carry a CA right.
parse_ca_security(v, hosting, domain) ==
    LET d == DecodedDacl(v)
    IN SortedSeq({i \in 1..Len(d) :
                    IsEdge(d[i]) /\ BitAnd(Unwrap(d[i].mask), CA_RIGHTS) # 0})

\* ------------------------------------ EnterpriseCA::get_hosting_computer
NotFound == <<"Not found">>
blacklist_sid == {"544", "519", "512"}

\* str.ends_with("-" + suffix) on a string given as its tokens.
ends_with(str, suffix) == Len(str) >= 2 /\ str[Len(str)] = suffix

\* The plain AND test in place of the OR-equality test.
ContainsAny(required, observed) == BitAnd(required, observed) # 0

ContainsAll(required, observed) == BitOr(required, observed) = observed

IsBlacklisted(sid) == \E blacklisted \in blacklist_sid : ends_with(sid, blacklisted)

IsAllowType(ace) == ace.ace_type = ACCESS_ALLOWED

Qualifies(sid, mask) ==
    ContainsAll(MANAGE_CERTIFICATES, mask) /\ ~IsBlacklisted(sid)

HasDacl(secdesc) == secdesc.offset_dacl # 0

\* &nt[off..] panics when off is past the end of the buffer.
SliceInRange(v, off) == off <= v.len

Returned(value, n) == [panic |-> FALSE, value |-> value, examined |-> n]
Panicked(n) == [panic |-> TRUE, value |-> <<>>, examined |-> n]

\* The for loop over the ACEs, from the i-th on; examined counts the ACEs
\* the loop has looked at when it ends.
RECURSIVE ScanAces(_, _, _)
ScanAces(data, i, domain) ==
    IF i > Len(data) THEN Returned(NotFound, Len(data))
    ELSE LET ace == data[i]
         IN IF IsAllowType(ace)
            THEN IF ~IsSome(get_sid(ace)) THEN Panicked(i)
                 ELSE LET sid == sid_maker(Unwrap(get_sid(ace)), domain)
                      IN IF ~IsSome(get_mask(ace)) THEN ScanAces(data, i + 1, domain)
                         ELSE IF Qualifies(sid, Unwrap(get_mask(ace)))
                              THEN Returned(sid, i)
                              ELSE ScanAces(data, i + 1, domain)
            ELSE ScanAces(data, i + 1, domain)

get_hosting_computer(v, domain) ==
    LET parsed == SecurityDescriptor_parse(v)
    IN IF ~IsSome(parsed) THEN Panicked(0)
       ELSE LET secdesc == Unwrap(parsed)
            IN IF HasDacl(secdesc)
               THEN IF ~SliceInRange(v, secdesc.offset_dacl) THEN Panicked(0)
                    ELSE LET res == Acl_parse(v, secdesc.offset_dacl)
                         IN IF IsSome(res)
                            THEN ScanAces(Unwrap(res).data, 1, domain)
                            ELSE Returned(NotFound, 0)
               ELSE Returned(NotFound, 0)

\* ------------------------------------------------------------------ state
VARIABLES
    pc,                 \* "idle", "bin" (parse, at the head of the loop over
                        \* result_bin), "arm" (parse, an arm of the loop has
                        \* run), "done" (Ok), "err" (Err), "panic"
    todo,               \* keys of result_bin parse has still to visit
    key,                \* the attribute or method last executed
    nt,                 \* the nTSecurityDescriptor value last processed
    cert,               \* the cACertificate value last processed
    examined,           \* ACEs looked at by the last get_hosting_computer
    properties,
    hosting_computer,
    ca_security,
    aces,
    is_acl_protected,
    contained_by

vars == <<pc, todo, key, nt, cert, examined, properties, hosting_computer,
          ca_security, aces, is_acl_protected, contained_by>>

object == <<properties, hosting_computer, ca_security, aces, is_acl_protected,
            contained_by>>

\* EnterpriseCAProperties::default
DefaultProperties ==
    [isaclprotected |-> FALSE,
     certthumbprint |-> "",
     certname |-> "",
     certchain |-> <<>>,
     hasbasicconstraints |-> FALSE,
     basicconstraintpathlength |-> 0,
     casecuritycollected |-> FALSE]

\* CASecurity::default
DefaultCASecurity == [data |-> <<>>, collected |-> TRUE, failure_reason |-> None]

Init ==
    /\ pc = "idle"
    /\ todo = {}
    /\ key = ""
    /\ nt = NoNt
    /\ cert = NoCert
    /\ examined = 0
    /\ properties = DefaultProperties
    /\ hosting_computer = <<>>
    /\ ca_security = DefaultCASecurity
    /\ aces = <<>>
    /\ is_acl_protected = FALSE
    /\ contained_by = None

BinKeys == {"nTSecurityDescriptor", "cACertificate"}
Running == pc \in {"idle", "done"}

\* ------------------------------------------------------ EnterpriseCA::new
\* The scan builds a fresh object for the next directory entry.
New ==
    /\ pc \in {"done", "err"}
    /\ pc' = "idle"
    /\ todo' = {}
    /\ key' = ""
    /\ nt' = NoNt
    /\ cert' = NoCert
    /\ examined' = 0
    /\ properties' = DefaultProperties
    /\ hosting_computer' = <<>>
    /\ ca_security' = DefaultCASecurity
    /\ aces' = <<>>
    /\ is_acl_protected' = FALSE
    /\ contained_by' = None

\* ---------------------------------------------------- EnterpriseCA::parse
\* Entry of parse and the loop over result_attrs, which returns Err through
\* `?` when string_to_epoch fails on whenCreated (the string properties it
\* stores are not part of the modelled state). keys is the key set of
\* result_bin.
ParseBegin ==
    /\ pc = "idle"
    /\ \E wc \in WhenCreatedValues, keys \in SUBSET BinKeys :
         IF wc = "Err"
         THEN /\ pc' = "err"
              /\ todo' = {}
         ELSE /\ pc' = "bin"
              /\ todo' = keys
    /\ key' = ""
    /\ nt' = NoNt
    /\ cert' = NoCert
    /\ UNCHANGED <<examined, object>>

FailureReason == "Failed to get CASecurity!"

\* Both branches storing the "collected" record.
MakeCASecurityCollected(ca_security_data) ==
    [data |-> ca_security_data, collected |-> TRUE, failure_reason |-> None]

\* The CASecurity stored for a decoded CA-security list.
MakeCASecurity(ca_security_data) ==
    IF ca_security_data # <<>>
    THEN [data |-> ca_security_data, collected |-> TRUE, failure_reason |-> None]
    ELSE [data |-> <<>>, collected |-> FALSE, failure_reason |-> Some(FailureReason)]

CaSecurityCollected(ca_security_data) == ca_security_data # <<>>

\* The "nTSecurityDescriptor" arm of the loop over result_bin.
ParseNtSecurityDescriptor ==
    /\ pc = "bin"
    /\ "nTSecurityDescriptor" \in todo
    /\ \E v \in NtValues :
         LET rel == parse_ntsecuritydescriptor(v)
             hc == get_hosting_computer(v, Domain)
             data == parse_ca_security(v, hc.value, Domain)
             prot == IF rel.collected THEN rel.protected ELSE is_acl_protected
         IN /\ nt' = v
            /\ aces' = rel.aces
            /\ is_acl_protected' = prot
            /\ examined' = hc.examined
            /\ IF hc.panic
               THEN /\ pc' = "panic"
                    /\ properties' = [properties EXCEPT !.isaclprotected = prot]
                    /\ UNCHANGED <<hosting_computer, ca_security>>
               ELSE /\ pc' = "arm"
                    /\ hosting_computer' = hc.value
                    /\ ca_security' = MakeCASecurity(data)
                    /\ properties' =
                         [properties EXCEPT
                            !.isaclprotected = prot,
                            !.casecuritycollected = CaSecurityCollected(data)]
    /\ key' = "nTSecurityDescriptor"
    /\ cert' = NoCert
    /\ todo' = todo \ {"nTSecurityDescriptor"}
    /\ UNCHANGED contained_by

\* The comparison taken as >= 0.
PathLenNotNegative(n) == n >= 0

PathLenPositive(n) == n > 0

\* One pass of the loop over cert.extensions().
ApplyExtension(props, ext) ==
    IF ext.oid = OID_BASIC_CONSTRAINTS /\ ext.parsed = "BasicConstraints"
    THEN IF IsSome(ext.path_len_constraint)
              /\ PathLenPositive(Unwrap(ext.path_len_constraint))
         THEN [props EXCEPT !.hasbasicconstraints = TRUE,
                            !.basicconstraintpathlength =
                                 Unwrap(ext.path_len_constraint)]
         ELSE [props EXCEPT !.hasbasicconstraints = FALSE,
                            !.basicconstraintpathlength = 0]
    ELSE props

RECURSIVE ApplyExtensions(_, _, _)
ApplyExtensions(props, exts, i) ==
    IF i > Len(exts) THEN props
    ELSE ApplyExtensions(ApplyExtension(props, exts[i]), exts, i + 1)

\* The thumbprint fields with certchain left out.
SetThumbprintOnly(props, certsha1) ==
    [props EXCEPT !.certthumbprint = certsha1, !.certname = certsha1]

\* The thumbprint fields, written before the certificate is decoded.
SetThumbprint(props, certsha1) ==
    [props EXCEPT !.certthumbprint = certsha1,
                  !.certname = certsha1,
                  !.certchain = <<certsha1>>]

\* The "cACertificate" arm of the loop over result_bin.
ParseCaCertificate ==
    /\ pc = "bin"
    /\ "cACertificate" \in todo
    /\ \E v \in CertValues :
         LET hashed == SetThumbprint(properties, calculate_sha1(v.bytes))
         IN /\ cert' = v
            /\ properties' =
                 IF IsSome(v.der)
                 THEN ApplyExtensions(hashed, Unwrap(v.der), 1)
                 ELSE hashed
    /\ pc' = "arm"
    /\ key' = "cACertificate"
    /\ nt' = NoNt
    /\ todo' = todo \ {"cACertificate"}
    /\ UNCHANGED <<examined, hosting_computer, ca_security, aces,
                   is_acl_protected, contained_by>>

\* The loop over result_bin moves on: the entry just handled goes out of
\* scope.
LoopNext ==
    /\ pc = "arm"
    /\ pc' = "bin"
    /\ key' = ""
    /\ nt' = NoNt
    /\ cert' = NoCert
    /\ UNCHANGED <<todo, examined, object>>

\* End of the loop over result_bin: parse returns Ok(()).
ParseEnd ==
    /\ pc = "bin"
    /\ todo = {}
    /\ pc' = "done"
    /\ UNCHANGED <<todo, key, nt, cert, examined, object>>

\* ------------------------------------------ impl LdapObject for EnterpriseCA
Call(name) ==
    /\ key' = name
    /\ nt' = NoNt
    /\ cert' = NoCert
    /\ UNCHANGED <<todo, examined>>

\* A method whose body is panic!("Not used by current object.").
PanicCall(name) ==
    /\ Running
    /\ Call(name)
    /\ pc' = "panic"
    /\ UNCHANGED object

get_spntargets == PanicCall("get_spntargets")
get_allowed_to_delegate == PanicCall("get_allowed_to_delegate")
get_links == PanicCall("get_links")
get_child_objects == PanicCall("get_child_objects")
get_spntargets_mut == PanicCall("get_spntargets_mut")
get_allowed_to_delegate_mut == PanicCall("get_allowed_to_delegate_mut")

\* A setter whose body is empty.
NoOpCall(name) ==
    /\ Running
    /\ Call(name)
    /\ UNCHANGED <<pc, object>>

set_spntargets == NoOpCall("set_spntargets")
set_allowed_to_delegate == NoOpCall("set_allowed_to_delegate")
set_links == NoOpCall("set_links")
set_child_objects == NoOpCall("set_child_objects")

\* set_is_acl_protected with the write to properties left out.
set_is_acl_protected_top_only ==
    /\ Running
    /\ \E b \in BOOLEAN : is_acl_protected' = b
    /\ Call("set_is_acl_protected")
    /\ UNCHANGED <<pc, properties, hosting_computer, ca_security, aces,
                   contained_by>>

set_is_acl_protected ==
    /\ Running
    /\ \E b \in BOOLEAN :
         /\ is_acl_protected' = b
         /\ properties' = [properties EXCEPT !.isaclprotected = b]
    /\ Call("set_is_acl_protected")
    /\ UNCHANGED <<pc, hosting_computer, ca_security, aces, contained_by>>

\* set_aces and set_contained_by; the scan calls them on the objects it has
\* parsed.
set_aces ==
    /\ pc = "done"
    /\ \E a \in {<<>>, <<1>>} : aces' = a
    /\ Call("set_aces")
    /\ UNCHANGED <<pc, properties, hosting_computer, ca_security,
                   is_acl_protected, contained_by>>

set_contained_by ==
    /\ pc = "done"
    /\ \E c \in {None, Some("container")} : contained_by' = c
    /\ Call("set_contained_by")
    /\ UNCHANGED <<pc, properties, hosting_computer, ca_security, aces,
                   is_acl_protected>>

Next ==
    \/ New
    \/ ParseBegin
    \/ ParseNtSecurityDescriptor
    \/ ParseCaCertificate
    \/ LoopNext
    \/ ParseEnd
    \/ get_spntargets
    \/ get_allowed_to_delegate
    \/ get_links
    \/ get_child_objects
    \/ get_spntargets_mut
    \/ get_allowed_to_delegate_mut
    \/ set_spntargets
    \/ set_allowed_to_delegate
    \/ set_links
    \/ set_child_objects
    \/ set_is_acl_protected
    \/ set_aces
    \/ set_contained_by

Spec == Init /\ [][Next]_vars

\* ------------------------------------------------------------ properties
\* Vocabulary of the properties, stated on the inputs and not through the
\* operators that model the code.
BitPositions == 0..19
Bit(m, i) == (m \div (2 ^ i)) % 2
Grants(required, observed) ==
    \A i \in BitPositions : Bit(required, i) = 1 => Bit(observed, i) = 1

NtProcessed == key = "nTSecurityDescriptor"
CertProcessed == key = "cACertificate"
HeaderReadable == nt.len >= HeaderLen
\* The descriptor just processed has a DACL that parsed.
DaclScanned ==
    /\ NtProcessed
    /\ HeaderReadable
    /\ nt.offset_dacl > 0
    /\ nt.offset_dacl < nt.len
    /\ Len(nt.acl) = 1
TheDacl == nt.acl[1]

LastToken(s) == s[Len(s)]
Grantee(ace) ==
    /\ ace.ace_type = 0
    /\ Len(ace.sid) = 1
    /\ Len(ace.mask) = 1
    /\ Grants(MANAGE_CERTIFICATES, ace.mask[1])
    /\ LastToken(ace.sid[1]) \notin {"544", "519", "512"}
FirstGrantee(d) ==
    IF \E i \in 1..Len(d) : Grantee(d[i])
    THEN CHOOSE i \in 1..Len(d) :
           Grantee(d[i]) /\ \A j \in 1..(i - 1) : ~Grantee(d[j])
    ELSE 0
Qualified(ace) == <<Domain, "S", "1", "5">> \o ace.sid[1]
\* An allow-type ACE whose trustee SID cannot be decoded.
Undecodable(ace) == ace.ace_type = 0 /\ Len(ace.sid) = 0
\* An allow-type ACE that lacks a rights mask.
MissingMask(ace) == ace.ace_type = 0 /\ Len(ace.mask) = 0

\* C1: for every DACL, get_hosting_computer returns the domain-qualified
\* trustee SID of the first ACE in stored order that is allow-type, whose
\* mask contains MANAGE_CERTIFICATES and whose SID has no blacklisted
\* suffix, and examines no ACE after it.
C1_FirstGranteeReturned ==
    (DaclScanned /\ FirstGrantee(TheDacl) # 0) =>
        /\ pc # "panic"
        /\ hosting_computer = Qualified(TheDacl[FirstGrantee(TheDacl)])
        /\ examined = FirstGrantee(TheDacl)

\* C1 on the DACLs in which every allow-type ACE has a decodable trustee
\* SID: there the first grantee is returned and nothing after it is examined.
C1_OnDecodableAces ==
    (/\ DaclScanned
     /\ FirstGrantee(TheDacl) # 0
     /\ \A i \in 1..Len(TheDacl) : ~Undecodable(TheDacl[i])) =>
        /\ pc = "arm"
        /\ hosting_computer = Qualified(TheDacl[FirstGrantee(TheDacl)])
        /\ examined = FirstGrantee(TheDacl)

C1_OnDecodableAces_Reached ==
    /\ DaclScanned
    /\ Len(TheDacl) = 2
    /\ TheDacl[1].sid = <<(<<"21", "512">>)>>
    /\ TheDacl[1].mask = <<FULL_CONTROL>>
    /\ FirstGrantee(TheDacl) = 2
    /\ hosting_computer = <<Domain, "S", "1", "5", "21", "1105">>

\* C2: get_hosting_computer returns "Not found", and no SID, whenever no ACE
\* qualifies or the DACL offset is 0.
C2_NotFoundWhenNoGrantee ==
    (/\ NtProcessed
     /\ HeaderReadable
     /\ \/ nt.offset_dacl = 0
        \/ DaclScanned /\ FirstGrantee(TheDacl) = 0) =>
        /\ pc # "panic"
        /\ hosting_computer = <<"Not found">>

\* C2 on the DACLs in which every allow-type ACE has a decodable trustee SID.
C2_OnDecodableAces ==
    (/\ NtProcessed
     /\ HeaderReadable
     /\ \/ nt.offset_dacl = 0
        \/ /\ DaclScanned
           /\ FirstGrantee(TheDacl) = 0
           /\ \A i \in 1..Len(TheDacl) : ~Undecodable(TheDacl[i])) =>
        /\ pc = "arm"
        /\ hosting_computer = <<"Not found">>

\* C3: the containment test of the heuristic grants the required right
\* exactly when every bit of the required mask is set in the observed mask:
\* the ACE returned carries every bit of MANAGE_CERTIFICATES, an earlier
\* non-blacklisted allow ACE was passed over only if it lacks one, and the
\* test agrees with bit-wise containment on multi-bit required masks
\* (0b0011 contains 0b0001 and does not contain 0b0100).
C3_ContainsAll ==
    /\ \A required \in 1..6, observed \in 0..7 :
         ContainsAll(required, observed) <=> Grants(required, observed)
    /\ ContainsAll(1, 3)
    /\ ~ContainsAll(4, 3)
    /\ (DaclScanned /\ pc = "arm") =>
         /\ hosting_computer # <<"Not found">> =>
              Grants(MANAGE_CERTIFICATES, TheDacl[examined].mask[1])
         /\ \A i \in 1..Len(TheDacl) :
              (/\ TheDacl[i].ace_type = 0
               /\ Len(TheDacl[i].mask) = 1
               /\ Len(TheDacl[i].sid) = 1
               /\ LastToken(TheDacl[i].sid[1]) \notin {"544", "519", "512"}
               /\ Grants(MANAGE_CERTIFICATES, TheDacl[i].mask[1]))
              => (examined <= i /\ hosting_computer # <<"Not found">>)

C3_Reached ==
    /\ DaclScanned
    /\ pc = "arm"
    /\ Len(TheDacl) = 2
    /\ TheDacl[1].ace_type = 0
    /\ TheDacl[1].sid = <<(<<"21", "1106">>)>>
    /\ TheDacl[1].mask = <<MANAGE_CA>>
    /\ TheDacl[2].mask = <<FULL_CONTROL>>
    /\ hosting_computer = <<Domain, "S", "1", "5", "21", "1105">>

\* C4: a DACL offset that is not 0 and not less than the buffer length
\* yields "Not found" without a crash, as offset 0 does.
C4_OutOfRangeOffsetIsNoDacl ==
    (/\ NtProcessed
     /\ HeaderReadable
     /\ nt.offset_dacl # 0
     /\ nt.offset_dacl >= nt.len) =>
        /\ pc # "panic"
        /\ hosting_computer = <<"Not found">>

\* C5: no nTSecurityDescriptor value makes parse panic; a buffer too short
\* for the header and an ACE with an undecodable trustee SID included.
C5_NoPanicOnDescriptor == NtProcessed => pc # "panic"

\* C6: once parse has processed an nTSecurityDescriptor, the stored
\* CASecurity is empty with collected = false and a failure reason, and
\* casecuritycollected is false, when the DACL offset is 0 or the decode
\* yields no entry; and collected = true, no failure reason and
\* casecuritycollected = true when the list is not empty.
C6_CollectedAgreesWithData ==
    (hosting_computer # <<>>) =>
        /\ (NtProcessed /\ pc = "arm" /\ nt.offset_dacl = 0) => ca_security.data = <<>>
        /\ ca_security.data = <<>> =>
             /\ ca_security.collected = FALSE
             /\ Len(ca_security.failure_reason) = 1
             /\ properties.casecuritycollected = FALSE
        /\ ca_security.data # <<>> =>
             /\ ca_security.collected = TRUE
             /\ Len(ca_security.failure_reason) = 0
             /\ properties.casecuritycollected = TRUE

C6_Reached ==
    /\ NtProcessed
    /\ pc = "arm"
    /\ HeaderReadable
    /\ nt.offset_dacl = 0
    /\ ca_security.data = <<>>
    /\ ca_security.collected = FALSE
    /\ ca_security.failure_reason = <<"Failed to get CASecurity!">>

\* The indices of the Basic Constraints extensions of the certificate.
CertExtensions == IF Len(cert.der) = 1 THEN cert.der[1] ELSE <<>>
BasicConstraintsAt ==
    {i \in 1..Len(CertExtensions) : CertExtensions[i].oid = "2.5.29.19"}
PositivePathLenAt(i) ==
    /\ CertExtensions[i].parsed = "BasicConstraints"
    /\ Len(CertExtensions[i].path_len_constraint) = 1
    /\ CertExtensions[i].path_len_constraint[1] > 0

CertUndecodable == CertProcessed /\ Len(cert.der) = 0

\* C8 as stated: when the cACertificate does not parse as DER, certthumbprint,
\* certname, certchain, hasbasicconstraints and basicconstraintpathlength all
\* keep their default values and parse goes on.
C8_AllDerivedFieldsDefault ==
    CertUndecodable =>
        /\ properties.certthumbprint = ""
        /\ properties.certname = ""
        /\ properties.certchain = <<>>
        /\ properties.hasbasicconstraints = FALSE
        /\ properties.basicconstraintpathlength = 0
        /\ pc = "arm"

\* C8 as amended: when the cACertificate does not parse as DER,
\* hasbasicconstraints and basicconstraintpathlength keep their default
\* values, certthumbprint, certname and certchain hold the SHA-1 of the raw
\* value, and parse goes on to the remaining attributes.
C8_ThumbprintSetConstraintsDefault ==
    CertUndecodable =>
        /\ properties.certthumbprint = Digests[cert.bytes]
        /\ properties.certname = Digests[cert.bytes]
        /\ properties.certchain = <<Digests[cert.bytes]>>
        /\ properties.hasbasicconstraints = FALSE
        /\ properties.basicconstraintpathlength = 0
        /\ pc = "arm"
        /\ ENABLED LoopNext

C8_Reached ==
    /\ CertUndecodable
    /\ pc = "arm"
    /\ properties.certthumbprint # ""
    /\ "nTSecurityDescriptor" \in todo

\* C9: in the DACL scan a malformed allow-type ACE (no rights mask, or
\* contents that cannot be decoded) is skipped, and a qualifying ACE that
\* follows it is still returned as the hosting computer.
C9_MalformedAceSkipped ==
    (/\ DaclScanned
     /\ FirstGrantee(TheDacl) # 0
     /\ \E j \in 1..(FirstGrantee(TheDacl) - 1) :
          Undecodable(TheDacl[j]) \/ MissingMask(TheDacl[j])) =>
        /\ pc = "arm"
        /\ hosting_computer = Qualified(TheDacl[FirstGrantee(TheDacl)])

\* C9 for the ACE that only lacks its rights mask: it is skipped.
C9_MissingMaskSkipped ==
    (/\ DaclScanned
     /\ FirstGrantee(TheDacl) # 0
     /\ \A j \in 1..Len(TheDacl) : ~Undecodable(TheDacl[j])
     /\ \E j \in 1..(FirstGrantee(TheDacl) - 1) : MissingMask(TheDacl[j])) =>
        /\ pc = "arm"
        /\ hosting_computer = Qualified(TheDacl[FirstGrantee(TheDacl)])

NotApplicable ==
    {"get_spntargets", "get_allowed_to_delegate", "get_links",
     "get_child_objects", "get_spntargets_mut", "get_allowed_to_delegate_mut"}

\* C10: the capability queries that mean nothing for an Enterprise CA never
\* abort the process: each call returns.
C10_NotApplicableQueriesReturn == key \in NotApplicable => pc # "panic"

\* C11: in every state reachable from EnterpriseCA::new() by the object's
\* operations, the top-level is_acl_protected flag equals
\* properties.isaclprotected.
C11_AclProtectedFlagsAgree == is_acl_protected = properties.isaclprotected

C11_Reached ==
    /\ key = "set_is_acl_protected"
    /\ pc = "done"
    /\ is_acl_protected = TRUE
    /\ properties.isaclprotected = TRUE
    /\ hosting_computer # <<>>

\* C11, the writers: either flag changes only in a step of
\* set_is_acl_protected, in the nTSecurityDescriptor arm of parse (where
\* parse_ntsecuritydescriptor is handed the object and calls the setter), or
\* when a fresh object is built.
C11_OnlySetterWrites ==
    [][(\/ is_acl_protected' # is_acl_protected
        \/ properties'.isaclprotected # properties.isaclprotected)
       => (\/ key' \in {"set_is_acl_protected", "nTSecurityDescriptor"}
           \/ pc' = "idle")]_vars

====
